---------------------------- MODULE Spec2Model ----------------------------
(***************************************************************************)
(* A model of pdf_to_json.py: the per-page text filter, the image          *)
(* detector, the outline flattener, the metadata normaliser and the        *)
(* conversion driver pdf_to_json.                                          *)
(*                                                                         *)
(* Python strings are modelled as sequences of one-character strings, so   *)
(* that split, strip, lstrip, slicing, regular-expression matching and     *)
(* date parsing are computed character by character as the code does.      *)
(***************************************************************************)
EXTENDS Integers, Sequences, FiniteSets, TLC

VARIABLES
    pc,             \* pdf_to_json: position in the function body
    status,         \* pdf_to_json: how the run ended ("running" until then)
    doc,            \* the document the reader exposes (pages, outline, metadata)
    metadata_dict,  \* pdf_to_json: local metadata_dict
    outlines,       \* pdf_to_json: local outlines
    chapters,       \* pdf_to_json: local chapters
    i,              \* pdf_to_json: index of the chapter loop (1-based)
    json_data,      \* pdf_to_json: local json_data
    written,        \* what has been written to json_path
    tf,             \* extract_text_from_page: one call (page, result)
    im,             \* extract_image_info: one call (page, result)
    md,             \* standardize_metadata: calls (raw, result, result of result)
    ol              \* process_outlines: one call (outline tree, result)

vars == <<pc, status, doc, metadata_dict, outlines, chapters, i, json_data,
          written, tf, im, md, ol>>

wfVars == <<pc, status, doc, metadata_dict, outlines, chapters, i, json_data,
            written>>

----------------------------------------------------------------------------
(* Bounds of the model.                                                    *)

MaxTextLen == 6      \* exhaustive raw page texts up to this length
MaxLines == 3        \* page texts built from up to this many sample lines
MaxXObjects == 3     \* entries of a page's /XObject dictionary
MaxMetaItems == 2    \* entries of a raw metadata mapping
MaxNodes == 3        \* nodes (entries and nested lists) of a document's outline
MaxOutlineNodes == 4 \* nodes of an outline given to process_outlines alone
MaxPages == 3        \* a document has 1..MaxPages pages; destinations are -1..MaxPages

----------------------------------------------------------------------------
(* Strings as sequences of characters.                                     *)

Digits == {"0", "1", "2", "3", "4", "5", "6", "7", "8", "9"}

\* Python's str.strip() whitespace (those that occur in the model)
Whitespace == {" ", "\t", "\r", "\n"}

DigitVal(c) ==
    CASE c = "0" -> 0 [] c = "1" -> 1 [] c = "2" -> 2 [] c = "3" -> 3
      [] c = "4" -> 4 [] c = "5" -> 5 [] c = "6" -> 6 [] c = "7" -> 7
      [] c = "8" -> 8 [] c = "9" -> 9

DigitChar(n) ==
    CASE n = 0 -> "0" [] n = 1 -> "1" [] n = 2 -> "2" [] n = 3 -> "3"
      [] n = 4 -> "4" [] n = 5 -> "5" [] n = 6 -> "6" [] n = 7 -> "7"
      [] n = 8 -> "8" [] n = 9 -> "9"

\* Python slice s[a:b] with 0-based a, b >= 0 (clamped to the string)
Slice(s, a, b) ==
    LET lo == IF a > Len(s) THEN Len(s) ELSE a
        hi == IF b > Len(s) THEN Len(s) ELSE b
    IN  IF hi <= lo THEN <<>> ELSE SubSeq(s, lo + 1, hi)

StartsWith(s, p) ==
    /\ Len(s) >= Len(p)
    /\ SubSeq(s, 1, Len(p)) = p

AllIn(s, S) == \A k \in 1..Len(s) : s[k] \in S

\* all strings over alphabet A of length at most n
StringsUpTo(A, n) == UNION {[1..k -> A] : k \in 0..n}

\* all sequences of length at most n with elements in S
SeqsUpTo(S, n) == UNION {[1..k -> S] : k \in 0..n}

RECURSIVE Concat(_)
\* the concatenation of a sequence of strings
Concat(ss) ==
    IF ss = <<>> THEN <<>> ELSE Head(ss) \o Concat(Tail(ss))

----------------------------------------------------------------------------
(* extract_text_from_page (lines 12-37).                                   *)

\* str.strip(): leading and trailing whitespace removed
RECURSIVE LStrip(_)
LStrip(s) ==
    IF s # <<>> /\ Head(s) \in Whitespace THEN LStrip(Tail(s)) ELSE s

RECURSIVE RStrip(_)
RStrip(s) ==
    IF s # <<>> /\ s[Len(s)] \in Whitespace
    THEN RStrip(SubSeq(s, 1, Len(s) - 1))
    ELSE s

Strip(s) == RStrip(LStrip(s))

\* str.split(sep) for a one-character separator: always at least one piece
RECURSIVE Split(_, _)
Split(s, sep) ==
    IF \E k \in 1..Len(s) : s[k] = sep
    THEN LET k == CHOOSE k \in 1..Len(s) :
                      s[k] = sep /\ \A j \in 1..(k - 1) : s[j] # sep
         IN  <<SubSeq(s, 1, k - 1)>> \o Split(SubSeq(s, k + 1, Len(s)), sep)
    ELSE <<s>>

\* sep.join(pieces)
RECURSIVE Join(_, _)
Join(pieces, sep) ==
    IF pieces = <<>> THEN <<>>
    ELSE IF Len(pieces) = 1 THEN Head(pieces)
    ELSE Head(pieces) \o <<sep>> \o Join(Tail(pieces), sep)

\* re.match(r'^\s*\d+\s*$', s); '$' also matches before one final newline
MatchNumberLine(s) ==
    \E a \in 0..Len(s) : \E b \in a..Len(s) : \E e \in {Len(s), Len(s) - 1} :
        /\ b > a
        /\ e >= b
        /\ e = Len(s) \/ s[Len(s)] = "\n"
        /\ AllIn(SubSeq(s, 1, a), Whitespace)
        /\ AllIn(SubSeq(s, a + 1, b), Digits)
        /\ AllIn(SubSeq(s, b + 1, e), Whitespace)

\* str.isdigit()
IsDigit(s) == s # <<>> /\ AllIn(s, Digits)

\* re.match(r'^\d{1,2}/\d{1,2}/\d{2,4}$', s)
MatchShortDate(s) ==
    \E a \in 1..2 : \E b \in 1..2 : \E c \in 2..4 : \E e \in {Len(s), Len(s) - 1} :
        /\ e = a + b + c + 2
        /\ e = Len(s) \/ s[Len(s)] = "\n"
        /\ AllIn(SubSeq(s, 1, a), Digits)
        /\ s[a + 1] = "/"
        /\ AllIn(SubSeq(s, a + 2, a + b + 1), Digits)
        /\ s[a + b + 2] = "/"
        /\ AllIn(SubSeq(s, a + b + 3, e), Digits)

\* KeepLine with the length test off by one (>= 2 for > 2)
KeepLineShort(line) ==
    LET stripped == Strip(line)
    IN  /\ ~MatchNumberLine(stripped)
        /\ ~IsDigit(stripped)
        /\ ~MatchShortDate(stripped)
        /\ Len(stripped) >= 2

\* the condition of lines 32-35 under which a line is appended
KeepLine(line) ==
    LET stripped == Strip(line)
    IN  /\ ~MatchNumberLine(stripped)
        /\ ~IsDigit(stripped)
        /\ ~MatchShortDate(stripped)
        /\ Len(stripped) > 2

\* lines 29-36: the loop that builds filtered_lines
FilterLines(lines) == SelectSeq(lines, KeepLine)

\* A page as extract_text_from_page sees it: page.extract_text() is None
\* (has_text = FALSE) or a string.
extract_text_from_page(page) ==
    IF ~page.has_text \/ page.text = <<>>
    THEN <<>>
    ELSE Join(FilterLines(Split(page.text, "\n")), "\n")

----------------------------------------------------------------------------
(* extract_image_info (lines 39-57).                                       *)
(* A page's resources: whether '/XObject' is among them, and the           *)
(* '/Subtype' of each entry of that dictionary, in iteration order.        *)

Subtypes == {"/Image", "/Form"}

\* ImageLoop leaving the loop at the first image
RECURSIVE ImageLoopBreak(_)
ImageLoopBreak(subtypes) ==
    IF subtypes = <<>> THEN <<>>
    ELSE IF Head(subtypes) = "/Image" THEN <<"[Image]">>
    ELSE ImageLoopBreak(Tail(subtypes))

\* lines 53-56: the loop over the XObject entries
RECURSIVE ImageLoop(_)
ImageLoop(subtypes) ==
    IF subtypes = <<>> THEN <<>>
    ELSE (IF Head(subtypes) = "/Image" THEN <<"[Image]">> ELSE <<>>)
             \o ImageLoop(Tail(subtypes))

extract_image_info(page) ==
    IF page.has_xobject THEN ImageLoop(page.xobjects) ELSE <<>>

----------------------------------------------------------------------------
(* datetime.strptime(date_str, '%Y%m%d%H%M%S') and isoformat() as line     *)
(* 109-110 uses them.  The format compiles to the regular expression       *)
(*   (\d\d\d\d)(1[0-2]|0[1-9]|[1-9])(3[0-1]|[1-2]\d|0[1-9]|[1-9]| [1-9])   *)
(*   (2[0-3]|[0-1]\d|\d)([0-5]\d|\d)(6[0-1]|[0-5]\d|\d)                    *)
(* which is matched at the start of the string with backtracking; data     *)
(* left over after the match, and field values no datetime has, raise      *)
(* ValueError.                                                             *)

D09 == Digits
D19 == Digits \ {"0"}

\* a regular expression: a sequence of groups, each a sequence of
\* alternatives in priority order, each a sequence of character sets
DateRegex ==
    << << <<D09, D09, D09, D09>> >>,
       << <<{"1"}, {"0", "1", "2"}>>, <<{"0"}, D19>>, <<D19>> >>,
       << <<{"3"}, {"0", "1"}>>, <<{"1", "2"}, D09>>, <<{"0"}, D19>>, <<D19>>,
          <<{" "}, D19>> >>,
       << <<{"2"}, {"0", "1", "2", "3"}>>, <<{"0", "1"}, D09>>, <<D09>> >>,
       << <<{"0", "1", "2", "3", "4", "5"}, D09>>, <<D09>> >>,
       << <<{"6"}, {"0", "1"}>>, <<{"0", "1", "2", "3", "4", "5"}, D09>>,
          <<D09>> >> >>

NoMatch == [ok |-> FALSE, lens |-> <<>>]

RECURSIVE MatchGroups(_, _, _)
RECURSIVE TryAlternatives(_, _, _, _, _)

\* the lengths matched by each group, first match in backtracking order
MatchGroups(s, pos, groups) ==
    IF groups = <<>> THEN [ok |-> TRUE, lens |-> <<>>]
    ELSE TryAlternatives(s, pos, Head(groups), 1, Tail(groups))

TryAlternatives(s, pos, alts, k, rest) ==
    IF k > Len(alts) THEN NoMatch
    ELSE LET alt == alts[k]
             fits == /\ pos + Len(alt) - 1 <= Len(s)
                     /\ \A j \in 1..Len(alt) : s[pos + j - 1] \in alt[j]
             r == MatchGroups(s, pos + Len(alt), rest)
         IN  IF fits /\ r.ok
             THEN [ok |-> TRUE, lens |-> <<Len(alt)>> \o r.lens]
             ELSE TryAlternatives(s, pos, alts, k + 1, rest)

\* int() of a matched field (a leading space, as in ' 5', is skipped)
RECURSIVE ToInt(_)
ToInt(s) ==
    IF s = <<>> THEN 0
    ELSE IF s[Len(s)] = " " THEN ToInt(SubSeq(s, 1, Len(s) - 1))
    ELSE 10 * ToInt(SubSeq(s, 1, Len(s) - 1)) + DigitVal(s[Len(s)])

IsLeap(y) == (y % 4 = 0 /\ y % 100 # 0) \/ y % 400 = 0

DaysInMonth(y, m) ==
    IF m = 2 THEN (IF IsLeap(y) THEN 29 ELSE 28)
    ELSE IF m \in {4, 6, 9, 11} THEN 30 ELSE 31

NoDate == [ok |-> FALSE, Y |-> 0, m |-> 0, d |-> 0, H |-> 0, M |-> 0, S |-> 0]

\* datetime.strptime(s, '%Y%m%d%H%M%S'): ok = FALSE stands for ValueError
strptime(s) ==
    LET r == MatchGroups(s, 1, DateRegex)
    IN  IF ~r.ok THEN NoDate
        ELSE
        LET l == r.lens
            p2 == 1 + l[1]
            p3 == p2 + l[2]
            p4 == p3 + l[3]
            p5 == p4 + l[4]
            p6 == p5 + l[5]
            end == p6 + l[6]
            Y == ToInt(SubSeq(s, 1, p2 - 1))
            m == ToInt(SubSeq(s, p2, p3 - 1))
            d == ToInt(SubSeq(s, p3, p4 - 1))
            H == ToInt(SubSeq(s, p4, p5 - 1))
            M == ToInt(SubSeq(s, p5, p6 - 1))
            S == ToInt(SubSeq(s, p6, end - 1))
        IN  IF /\ end = Len(s) + 1          \* no unconverted data remains
               /\ Y >= 1                    \* datetime.MINYEAR
               /\ d <= DaysInMonth(Y, m)
               /\ S <= 59
            THEN [ok |-> TRUE, Y |-> Y, m |-> m, d |-> d, H |-> H, M |-> M,
                  S |-> S]
            ELSE NoDate

\* n as a decimal string of exactly w digits (n < 10^w)
RECURSIVE Pad(_, _)
Pad(n, w) ==
    IF w = 0 THEN <<>> ELSE Pad(n \div 10, w - 1) \o <<DigitChar(n % 10)>>

\* date_obj.isoformat() + 'Z'
isoformatZ(t) ==
    Pad(t.Y, 4) \o <<"-">> \o Pad(t.m, 2) \o <<"-">> \o Pad(t.d, 2) \o <<"T">>
        \o Pad(t.H, 2) \o <<":">> \o Pad(t.M, 2) \o <<":">> \o Pad(t.S, 2)
        \o <<"Z">>

----------------------------------------------------------------------------
(* standardize_metadata (lines 89-120).                                    *)
(* A dict is a sequence of items [key, value] with distinct keys, in       *)
(* insertion order.                                                        *)

sTitle == <<"T", "i", "t", "l", "e">>
sAuthor == <<"A", "u", "t", "h", "o", "r">>
sUntitled == <<"U", "n", "t", "i", "t", "l", "e", "d">>
sUnknown == <<"U", "n", "k", "n", "o", "w", "n">>
sCreationDate == <<"C", "r", "e", "a", "t", "i", "o", "n", "D", "a", "t", "e">>
sModDate == <<"M", "o", "d", "D", "a", "t", "e">>
sDColon == <<"D", ":">>

DictHas(dict, key) == \E k \in 1..Len(dict) : dict[k].key = key

DictGet(dict, key) == dict[CHOOSE k \in 1..Len(dict) : dict[k].key = key].value

\* dict[key] = value: an existing key keeps its place
DictSet(dict, key, value) ==
    IF DictHas(dict, key)
    THEN [k \in 1..Len(dict) |->
              IF dict[k].key = key THEN [key |-> key, value |-> value]
              ELSE dict[k]]
    ELSE Append(dict, [key |-> key, value |-> value])

\* LStripSlash removing one leading '/' only
LStripOneSlash(key) ==
    IF key # <<>> /\ Head(key) = "/" THEN Tail(key) ELSE key

\* key.lstrip('/'): every leading '/' is removed
RECURSIVE LStripSlash(_)
LStripSlash(key) ==
    IF key # <<>> /\ Head(key) = "/" THEN LStripSlash(Tail(key)) ELSE key

\* DateStr slicing whether or not the value starts with 'D:'
DateStrAlwaysSliced(value) == Slice(value, 2, 16)

\* line 108
DateStr(value) ==
    IF StartsWith(value, sDColon) THEN Slice(value, 2, 16) ELSE value

\* lines 107-112: the try block and its except clause
ParseDate(value) ==
    LET date_obj == strptime(DateStr(value))
    IN  IF date_obj.ok THEN isoformatZ(date_obj) ELSE value

\* lines 104-114: the body of the loop for one item
StandardizeItem(standardized, item) ==
    LET clean_key == LStripSlash(item.key)
    IN  IF clean_key \in {sCreationDate, sModDate} /\ item.value # <<>>
        THEN DictSet(standardized, clean_key, ParseDate(item.value))
        ELSE DictSet(standardized, clean_key, item.value)

\* lines 102-114: the loop over metadata.items()
RECURSIVE StandardizeLoop(_, _)
StandardizeLoop(standardized, items) ==
    IF items = <<>> THEN standardized
    ELSE StandardizeLoop(StandardizeItem(standardized, Head(items)), Tail(items))

\* lines 116-119: a required field that is missing or empty gets its default
EnsureField(standardized, key, default) ==
    IF ~DictHas(standardized, key) \/ DictGet(standardized, key) = <<>>
    THEN DictSet(standardized, key, default)
    ELSE standardized

standardize_metadata(metadata) ==
    IF metadata = <<>>
    THEN <<[key |-> sTitle, value |-> sUntitled],
           [key |-> sAuthor, value |-> sUnknown]>>
    ELSE EnsureField(EnsureField(StandardizeLoop(<<>>, metadata),
                                 sTitle, sUntitled),
                     sAuthor, sUnknown)

----------------------------------------------------------------------------
(* process_outlines (lines 59-87).                                         *)
(* reader.outline is a list whose items are outline entries or nested      *)
(* lists.  An entry is resolvable when reading its title and               *)
(* reader.get_destination_page_number succeed (dest is the page number     *)
(* returned), and unresolvable when they raise AttributeError.  The code   *)
(* never inspects a title, so each entry's title is the path of list       *)
(* positions that leads to it, which tells any two entries apart.          *)

Entry(dest) ==
    [is_list |-> FALSE, resolvable |-> TRUE, dest |-> dest, title |-> <<>>,
     items |-> <<>>]

BrokenEntry ==
    [is_list |-> FALSE, resolvable |-> FALSE, dest |-> 0, title |-> <<>>,
     items |-> <<>>]

NestedList(items) ==
    [is_list |-> TRUE, resolvable |-> FALSE, dest |-> 0, title |-> <<>>,
     items |-> items]

\* process_outlines descending without raising the level
RECURSIVE process_outlines_same_level(_, _)
process_outlines_same_level(outline_list, level) ==
    IF outline_list = <<>> THEN <<>>
    ELSE LET outline == Head(outline_list)
             here == IF outline.is_list
                     THEN process_outlines_same_level(outline.items, level)
                     ELSE IF outline.resolvable
                     THEN <<[title |-> outline.title, level |-> level,
                             start_page |-> outline.dest]>>
                     ELSE <<>>
         IN  here \o process_outlines_same_level(Tail(outline_list), level)

RECURSIVE process_outlines(_, _)
process_outlines(outline_list, level) ==
    IF outline_list = <<>> THEN <<>>
    ELSE LET outline == Head(outline_list)
             here == IF outline.is_list
                     THEN process_outlines(outline.items, level + 1)
                     ELSE IF outline.resolvable
                     THEN <<[title |-> outline.title, level |-> level,
                             start_page |-> outline.dest]>>
                     ELSE <<>>
         IN  here \o process_outlines(Tail(outline_list), level)

\* the outlines with exactly n nodes (entries and nested lists), untitled
RECURSIVE OutlinesOfSize(_, _)
OutlinesOfSize(n, entries) ==
    IF n = 0 THEN {<<>>}
    ELSE UNION {
           {<<first>> \o rest :
                first \in (IF k = 1 THEN entries ELSE {})
                          \cup {NestedList(f) : f \in OutlinesOfSize(k - 1, entries)},
                rest \in OutlinesOfSize(n - k, entries)} : k \in 1..n}

\* every entry titled with its path
RECURSIVE Titled(_, _)
Titled(outline_list, path) ==
    [k \in 1..Len(outline_list) |->
        LET node == outline_list[k]
        IN  IF node.is_list
            THEN [node EXCEPT !.items = Titled(node.items, Append(path, k))]
            ELSE [node EXCEPT !.title = Append(path, k)]]

Destinations == -1..MaxPages

Entries == {Entry(dest) : dest \in Destinations} \cup {BrokenEntry}

OutlinesUpTo(n, entries) ==
    UNION {{Titled(f, <<>>) : f \in OutlinesOfSize(k, entries)} : k \in 0..n}

\* the outlines of the documents of the conversion runs
Outlines == OutlinesUpTo(MaxNodes, Entries)

\* the outlines given to process_outlines alone, which does not look at a
\* destination: two page numbers are enough to tell page order from
\* document order
FlattenerEntries == {Entry(0), Entry(1), BrokenEntry}

----------------------------------------------------------------------------
(* pdf_to_json (lines 122-189).                                            *)

\* The page at index n of the document: its raw text is a line naming the
\* page followed by a bare page-number line, and odd pages carry XObjects.
PageOf(n) ==
    LET name == IF n < 0 THEN <<"-", DigitChar((-n) % 10)>>
                ELSE <<DigitChar(n % 10)>>
    IN  [has_text |-> TRUE,
         text |-> <<"p", "g">> \o name \o <<"\n">> \o name,
         has_xobject |-> n % 2 = 1,
         xobjects |-> <<"/Image", "/Form", "/Image">>]

\* reader.pages[n] (line 153, line 169): a negative index counts from the
\* end, an index outside the sequence raises IndexError (ok = FALSE)
PageAt(n, page_count) ==
    LET index == IF n < 0 THEN page_count + n ELSE n
    IN  IF index < 0 \/ index >= page_count
        THEN [ok |-> FALSE, index |-> 0]
        ELSE [ok |-> TRUE, index |-> index]

\* list(range(a, b + 1))
RangeList(a, b) == IF b < a THEN <<>> ELSE [k \in 1..(b - a + 1) |-> a + k - 1]

\* line 146: chapters.sort(key=start_page), a stable sort
RECURSIVE InsertByStart(_, _)
InsertByStart(sorted, x) ==
    IF sorted = <<>> THEN <<x>>
    ELSE IF x.start_page < Head(sorted).start_page THEN <<x>> \o sorted
    ELSE <<Head(sorted)>> \o InsertByStart(Tail(sorted), x)

RECURSIVE SortByStart(_)
SortByStart(chs) ==
    IF chs = <<>> THEN <<>>
    ELSE InsertByStart(SortByStart(SubSeq(chs, 1, Len(chs) - 1)), chs[Len(chs)])

\* EndPage without the "- 1" before the next chapter's start page
EndPageOverlapping(chs, k, page_count) ==
    IF k < Len(chs) THEN chs[k + 1].start_page ELSE page_count - 1

\* line 149, for the chapter at 1-based position k
EndPage(chs, k, page_count) ==
    IF k < Len(chs) THEN chs[k + 1].start_page - 1 ELSE page_count - 1

\* lines 150-157: the page loop of one chapter; ok = FALSE when a page
\* access raises IndexError
ChapterPages(start_page, end_page, page_count) ==
    LET nums == RangeList(start_page, end_page)
        at == [k \in 1..Len(nums) |-> PageAt(nums[k], page_count)]
    IN  IF \E k \in 1..Len(nums) : ~at[k].ok
        THEN [ok |-> FALSE, text |-> <<>>, images |-> <<>>]
        ELSE [ok |-> TRUE,
              text |-> [k \in 1..Len(nums) |->
                           extract_text_from_page(PageOf(at[k].index))],
              images |-> Concat([k \in 1..Len(nums) |->
                           extract_image_info(PageOf(at[k].index))])]

\* lines 167-172: one entry per page
FlatPages(page_count) ==
    [k \in 1..page_count |->
        [text |-> extract_text_from_page(PageOf(k - 1)),
         images |-> extract_image_info(PageOf(k - 1))]]

\* line 165: the condition of the fallback
NeedsFallback(outl, chs) == outl = <<>> \/ chs = <<>>

NoFile ==
    [exists |-> FALSE, valid |-> FALSE, page_count |-> 0, outline |-> <<>>,
     metadata |-> <<>>]

CorruptFile ==
    [exists |-> TRUE, valid |-> FALSE, page_count |-> 0, outline |-> <<>>,
     metadata |-> <<>>]

\* raw metadata of the documents of the conversion runs
DocMetadata ==
    {<<>>, <<[key |-> <<"/">> \o sTitle, value |-> <<"T">>]>>}

Documents ==
    {NoFile, CorruptFile} \cup
    {[exists |-> TRUE, valid |-> TRUE, page_count |-> n, outline |-> o,
      metadata |-> m] : n \in 1..MaxPages, o \in Outlines, m \in DocMetadata}

NotWritten == [opened |-> FALSE, data |-> <<>>]

\* the variables of the single calls, when no such call is being modelled
Idle == [phase |-> "idle"]

CallsIdle == tf = Idle /\ im = Idle /\ md = Idle /\ ol = Idle

Init ==
    /\ pc = "open"
    /\ status = "running"
    /\ doc \in Documents
    /\ metadata_dict = <<>>
    /\ outlines = <<>>
    /\ chapters = <<>>
    /\ i = 0
    /\ json_data = <<>>
    /\ written = NotWritten
    /\ CallsIdle

\* lines 131-132, 183-186: opening and parsing the input
Open ==
    /\ pc = "open"
    /\ IF ~doc.exists THEN pc' = "done" /\ status' = "NotFound"
       ELSE IF ~doc.valid THEN pc' = "done" /\ status' = "InvalidFormat"
       ELSE pc' = "metadata" /\ status' = status
    /\ UNCHANGED <<doc, metadata_dict, outlines, chapters, i, json_data,
                   written, tf, im, md, ol>>

\* lines 135-136
Metadata ==
    /\ pc = "metadata"
    /\ metadata_dict' = standardize_metadata(doc.metadata)
    /\ pc' = "outline"
    /\ UNCHANGED <<status, doc, outlines, chapters, i, json_data, written,
                   tf, im, md, ol>>

\* lines 139-146: flattening and sorting the outline
Outline ==
    /\ pc = "outline"
    /\ IF doc.outline = <<>>
       THEN outlines' = <<>> /\ chapters' = chapters /\ pc' = "flat"
       ELSE LET chs == process_outlines(doc.outline, 0)
            IN  IF chs = <<>>
                THEN outlines' = <<>> /\ chapters' = chs /\ pc' = "flat"
                ELSE /\ outlines' = doc.outline
                     /\ chapters' = SortByStart(chs)
                     /\ pc' = "fill"
    /\ i' = 1
    /\ UNCHANGED <<status, doc, metadata_dict, json_data, written,
                   tf, im, md, ol>>

\* FillChapter dumping the chapters filled so far after each iteration
FillChapterWriting ==
    /\ pc = "fill"
    /\ i <= Len(chapters)
    /\ LET chapter == chapters[i]
           start_page == chapter.start_page
           end_page == EndPage(chapters, i, doc.page_count)
           got == ChapterPages(start_page, end_page, doc.page_count)
       IN  IF got.ok
           THEN /\ chapters' = [chapters EXCEPT ![i] =
                       [title |-> chapter.title, level |-> chapter.level,
                        start_page |-> chapter.start_page,
                        pages |-> got.text, images |-> got.images]]
                /\ i' = i + 1
                /\ pc' = pc
                /\ status' = status
                /\ written' = [opened |-> TRUE,
                               data |-> <<[metadata |-> metadata_dict,
                                           chapters |-> chapters']>>]
           ELSE /\ pc' = "done"
                /\ status' = "Unexpected"
                /\ UNCHANGED <<chapters, i, written>>
    /\ UNCHANGED <<doc, metadata_dict, outlines, json_data, tf, im, md, ol>>

\* lines 147-159: one iteration of the chapter loop; an IndexError leaves
\* through lines 187-189
FillChapter ==
    /\ pc = "fill"
    /\ i <= Len(chapters)
    /\ LET chapter == chapters[i]
           start_page == chapter.start_page
           end_page == EndPage(chapters, i, doc.page_count)
           got == ChapterPages(start_page, end_page, doc.page_count)
       IN  IF got.ok
           THEN /\ chapters' = [chapters EXCEPT ![i] =
                       [title |-> chapter.title, level |-> chapter.level,
                        start_page |-> chapter.start_page,
                        pages |-> got.text, images |-> got.images]]
                /\ i' = i + 1
                /\ pc' = pc
                /\ status' = status
           ELSE /\ pc' = "done"
                /\ status' = "Unexpected"
                /\ UNCHANGED <<chapters, i>>
    /\ UNCHANGED <<doc, metadata_dict, outlines, json_data, written,
                   tf, im, md, ol>>

\* lines 160-165: the chapter result, then the test of the fallback
AssembleChapters ==
    /\ pc = "fill"
    /\ i > Len(chapters)
    /\ json_data' = [metadata |-> metadata_dict, chapters |-> chapters]
    /\ pc' = IF NeedsFallback(outlines, chapters) THEN "flat" ELSE "write"
    /\ UNCHANGED <<status, doc, metadata_dict, outlines, chapters, i, written,
                   tf, im, md, ol>>

\* lines 165-176: the flat result
FlatContent ==
    /\ pc = "flat"
    /\ json_data' = [metadata |-> metadata_dict,
                     content |-> FlatPages(doc.page_count)]
    /\ pc' = "write"
    /\ UNCHANGED <<status, doc, metadata_dict, outlines, chapters, i, written,
                   tf, im, md, ol>>

\* lines 179-181: the output file is opened and the result dumped
Write ==
    /\ pc = "write"
    /\ written' = [opened |-> TRUE, data |-> <<json_data>>]
    /\ status' = "ok"
    /\ pc' = "done"
    /\ UNCHANGED <<doc, metadata_dict, outlines, chapters, i, json_data,
                   tf, im, md, ol>>

Next ==
    \/ Open
    \/ Metadata
    \/ Outline
    \/ FillChapter
    \/ AssembleChapters
    \/ FlatContent
    \/ Write

Spec == Init /\ [][Next]_vars

----------------------------------------------------------------------------
(* Single calls of the four helper functions, each under a specification   *)
(* of its own: Init draws the argument, the action applies the function.   *)

\* the conversion's variables, when no conversion is being modelled
NoConversion ==
    /\ pc = "idle"
    /\ status = "idle"
    /\ doc = NoFile
    /\ metadata_dict = <<>>
    /\ outlines = <<>>
    /\ chapters = <<>>
    /\ i = 0
    /\ json_data = <<>>
    /\ written = NotWritten

(* -- extract_text_from_page -- *)

TextAlphabet == {"1", "/", "a", " ", "\n"}

SampleLines ==
    {<<"1", "/", "1", "/", "1", "1">>,
    <<"1", "2", "/", "3", "1", "/", "2", "0", "2", "4">>,
    <<" ", "3", "/", "4", "/", "5", "6", " ">>,
    <<"1", "/", "1", "/", "1">>,
    <<" ", "1", "2", " ">>,
    <<"a", "b", "c">>,
    <<" ", "a", "b", " ">>,
    <<" ", "a", " ", "1", " ">>,
    <<"7">>,
    <<"1", "/", "2", "/", "3", "4", "5", "6", "7">>}

\* raw texts: every short string, and every text of a few sample lines
RawTexts ==
    StringsUpTo(TextAlphabet, MaxTextLen)
        \cup {Join(ls, "\n") : ls \in SeqsUpTo(SampleLines, MaxLines)}

TextPages ==
    {[has_text |-> FALSE, text |-> <<>>]}
        \cup {[has_text |-> TRUE, text |-> t] : t \in RawTexts}

InitText ==
    /\ NoConversion
    /\ tf \in {[phase |-> "call", page |-> p, result |-> <<>>] : p \in TextPages}
    /\ im = Idle /\ md = Idle /\ ol = Idle

CallExtractText ==
    /\ tf.phase = "call"
    /\ tf' = [tf EXCEPT !.phase = "returned",
                        !.result = extract_text_from_page(tf.page)]
    /\ UNCHANGED <<wfVars, im, md, ol>>

NextText == CallExtractText

SpecText == InitText /\ [][NextText]_vars

(* -- extract_image_info -- *)

XObjectSubtypes == Subtypes \cup {"/PS"}

ImagePages ==
    {[has_xobject |-> h, xobjects |-> x] :
        h \in BOOLEAN, x \in SeqsUpTo(XObjectSubtypes, MaxXObjects)}

InitImage ==
    /\ NoConversion
    /\ im \in {[phase |-> "call", page |-> p, result |-> <<>>] : p \in ImagePages}
    /\ tf = Idle /\ md = Idle /\ ol = Idle

CallExtractImages ==
    /\ im.phase = "call"
    /\ im' = [im EXCEPT !.phase = "returned",
                        !.result = extract_image_info(im.page)]
    /\ UNCHANGED <<wfVars, tf, md, ol>>

NextImage == CallExtractImages

SpecImage == InitImage /\ [][NextImage]_vars

(* -- process_outlines -- *)

InitOutline ==
    /\ NoConversion
    /\ ol \in {[phase |-> "call", outline |-> o, result |-> <<>>] : o \in OutlinesUpTo(MaxOutlineNodes, FlattenerEntries)}
    /\ tf = Idle /\ im = Idle /\ md = Idle

CallProcessOutlines ==
    /\ ol.phase = "call"
    /\ ol' = [ol EXCEPT !.phase = "returned",
                        !.result = process_outlines(ol.outline, 0)]
    /\ UNCHANGED <<wfVars, tf, im, md>>

NextOutline == CallProcessOutlines

SpecOutline == InitOutline /\ [][NextOutline]_vars

(* -- standardize_metadata -- *)

sBadValue == <<"D", ":", "B", "A", "D", "V", "A", "L", "U", "E">>
sExampleDate == <<"D", ":", "2", "0", "2", "3", "0", "1", "1", "5", "1", "2", "3", "4", "5", "6">>
sExampleIso == <<"2", "0", "2", "3", "-", "0", "1", "-", "1", "5", "T", "1", "2", ":", "3", "4", ":", "5", "6", "Z">>

DatePrefixes == {<<>>, <<"D", ":">>, <<"D">>}
DateYears == {<<"2", "0", "2", "3">>, <<"2", "0", "2", "4">>, <<"0", "0", "0", "0">>}
DateMonths == {<<"0", "2">>, <<"1", "3">>, <<"2">>}
DateDays == {<<"2", "9">>, <<"3", "0">>, <<"1">>, <<" ", "1">>}
DateHours == {<<"2", "3">>, <<"2", "4">>}
DateMinutes == {<<"5", "9">>, <<"6">>}
DateSeconds == {<<"5", "9">>, <<"6", "0">>, <<"5">>}
DateSuffixes == {<<>>, <<"Z">>, <<"7">>}

\* date values: a prefix, six fields and a suffix, and some other strings
DateValues ==
    {p \o y \o m \o d \o h \o mi \o sec \o x :
        p \in DatePrefixes, y \in DateYears, m \in DateMonths, d \in DateDays,
        h \in DateHours, mi \in DateMinutes, sec \in DateSeconds,
        x \in DateSuffixes}
    \cup {<<>>, sBadValue, sDColon, sExampleDate, sExampleIso,
          Slice(sExampleDate, 2, 16), Slice(sExampleDate, 0, 11)}

DateKeys == {sCreationDate, <<"/">> \o sCreationDate, <<"/">> \o sModDate}

RawKeys ==
    {sTitle, <<"/">> \o sTitle, <<"/", "/">> \o sTitle, <<"/">> \o sAuthor,
     <<"/">> \o sCreationDate, sCreationDate, <<"/">>}

ItemValues ==
    {<<>>, <<"T">>, sExampleDate, Slice(sExampleDate, 2, 16), sExampleIso}

\* raw metadata: one date item with any date value, or a few items with
\* distinct raw keys
RawMetadata ==
    {<<[key |-> k, value |-> v]>> : k \in DateKeys, v \in DateValues}
        \cup {m \in SeqsUpTo([key : RawKeys, value : ItemValues], MaxMetaItems) :
                 \A a, b \in 1..Len(m) : a # b => m[a].key # m[b].key}

InitMeta ==
    /\ NoConversion
    /\ md \in {[phase |-> "call", raw |-> m, once |-> <<>>, twice |-> <<>>] :
                  m \in RawMetadata}
    /\ tf = Idle /\ im = Idle /\ ol = Idle

\* standardize_metadata applied to the raw metadata
Standardize ==
    /\ md.phase = "call"
    /\ md' = [md EXCEPT !.phase = "once",
                        !.once = standardize_metadata(md.raw)]
    /\ UNCHANGED <<wfVars, tf, im, ol>>

\* standardize_metadata applied to its own result
StandardizeAgain ==
    /\ md.phase = "once"
    /\ md' = [md EXCEPT !.phase = "twice",
                        !.twice = standardize_metadata(md.once)]
    /\ UNCHANGED <<wfVars, tf, im, ol>>

NextMeta == Standardize \/ StandardizeAgain

SpecMeta == InitMeta /\ [][NextMeta]_vars

----------------------------------------------------------------------------
(* Properties of extract_text_from_page.                                   *)

\* the trimmed form of a line: from its first to its last non-blank character
Trimmed(line) ==
    LET solid == {k \in 1..Len(line) : line[k] \notin Whitespace}
    IN  IF solid = {} THEN <<>>
        ELSE SubSeq(line, CHOOSE a \in solid : \A k \in solid : a <= k,
                          CHOOSE b \in solid : \A k \in solid : b >= k)

\* D{1,2}/D{1,2}/D{2,4}: three runs of digits separated by '/'
IsShortDate(t) ==
    LET parts == Split(t, "/")
    IN  /\ Len(parts) = 3
        /\ \A k \in 1..3 : AllIn(parts[k], Digits)
        /\ Len(parts[1]) \in 1..2
        /\ Len(parts[2]) \in 1..2
        /\ Len(parts[3]) \in 2..4

IsBareInteger(t) == Len(t) >= 1 /\ AllIn(t, Digits)

Dropped(line) ==
    \/ IsBareInteger(Trimmed(line))
    \/ IsShortDate(Trimmed(line))
    \/ Len(Trimmed(line)) <= 2

\* the positions of the input lines that are not dropped
KeptPositions(lines) == {k \in 1..Len(lines) : ~Dropped(lines[k])}

\* C9: the result of extract_text_from_page is the input's lines that are
\* not dropped (trimmed form only digits, a short date, or of length <= 2),
\* joined in their original order with their content untrimmed; so every
\* line of a non-empty result has trimmed length > 2 and is neither a bare
\* integer nor a short date; absent or empty text gives the empty string.
C9_TextFilter ==
    tf.phase = "returned" =>
        LET lines == Split(tf.page.text, "\n")
            kept == KeptPositions(lines)
            out == Split(tf.result, "\n")
        IN  IF ~tf.page.has_text \/ tf.page.text = <<>> \/ kept = {}
            THEN tf.result = <<>>
            ELSE /\ Len(out) = Cardinality(kept)
                 /\ \A k \in kept :
                        out[Cardinality({j \in kept : j <= k})] = lines[k]
                 /\ \A n \in 1..Len(out) :
                        /\ Len(Trimmed(out[n])) > 2
                        /\ ~IsBareInteger(Trimmed(out[n]))
                        /\ ~IsShortDate(Trimmed(out[n]))

\* a text with a short-date line and a page-number line that are dropped
\* around a kept line that keeps its surrounding blanks
C9_Witness ==
    /\ tf.phase = "returned"
    /\ tf.page.has_text
    /\ LET lines == Split(tf.page.text, "\n")
       IN  /\ \E k \in 1..Len(lines) : IsShortDate(Trimmed(lines[k]))
           /\ \E k \in 1..Len(lines) : IsBareInteger(Trimmed(lines[k]))
           /\ \E k \in 1..Len(lines) :
                  ~Dropped(lines[k]) /\ Trimmed(lines[k]) # lines[k]
    /\ tf.result # <<>>
    /\ tf.result # tf.page.text

----------------------------------------------------------------------------
(* Properties of extract_image_info.                                       *)

ImageEntries(page) ==
    IF page.has_xobject
    THEN {k \in 1..Len(page.xobjects) : page.xobjects[k] = "/Image"}
    ELSE {}

\* C7 as stated: the result is the empty list or the one-element list
\* ["[Image]"], however many image objects the page holds.
C7_Binary ==
    im.phase = "returned" => im.result \in {<<>>, <<"[Image]">>}

\* C7 amended: the result holds one "[Image]" for each entry of the page's
\* XObject collection whose subtype is Image, and is empty when the page has
\* no such collection or no such entry.
C7_OnePerImage ==
    im.phase = "returned" =>
        /\ Len(im.result) = Cardinality(ImageEntries(im.page))
        /\ \A k \in 1..Len(im.result) : im.result[k] = "[Image]"

\* a page with two image objects and another object
C7_Witness ==
    /\ im.phase = "returned"
    /\ Cardinality(ImageEntries(im.page)) >= 2
    /\ \E k \in 1..Len(im.page.xobjects) : im.page.xobjects[k] # "/Image"
    /\ Len(im.result) >= 2

----------------------------------------------------------------------------
(* Properties of process_outlines.                                         *)

\* the paths (list positions, outermost first) of the resolvable entries
RECURSIVE ResolvablePaths(_, _)
ResolvablePaths(outline_list, prefix) ==
    UNION {LET node == outline_list[k]
           IN  IF node.is_list
               THEN ResolvablePaths(node.items, Append(prefix, k))
               ELSE IF node.resolvable THEN {Append(prefix, k)} ELSE {}
           : k \in 1..Len(outline_list)}

RECURSIVE NodeAt(_, _)
NodeAt(outline_list, path) ==
    IF Len(path) = 1 THEN outline_list[path[1]]
    ELSE NodeAt(outline_list[path[1]].items, Tail(path))

\* p comes before q in depth-first pre-order (document order)
Before(p, q) ==
    \E k \in 1..Len(p) :
        /\ k <= Len(q)
        /\ p[k] < q[k]
        /\ \A j \in 1..(k - 1) : p[j] = q[j]

\* C8: the result of process_outlines is the resolvable entries in
\* depth-first pre-order (a nested list's stubs in place, not sorted by
\* page), each with its title and destination and with level equal to the
\* number of nested lists around it; unresolvable entries are left out and
\* change nothing else.  A top-level entry followed by a nested entry gives
\* two stubs of levels 0 and 1.
C8_Flatten ==
    ol.phase = "returned" =>
        LET paths == ResolvablePaths(ol.outline, <<>>)
        IN  /\ Len(ol.result) = Cardinality(paths)
            /\ \A p \in paths :
                   ol.result[Cardinality({q \in paths : Before(q, p)}) + 1] =
                       [title |-> NodeAt(ol.outline, p).title,
                        level |-> Len(p) - 1,
                        start_page |-> NodeAt(ol.outline, p).dest]
            /\ (/\ Len(ol.outline) = 2
                /\ ~ol.outline[1].is_list /\ ol.outline[1].resolvable
                /\ ol.outline[2].is_list /\ Len(ol.outline[2].items) = 1
                /\ ~ol.outline[2].items[1].is_list
                /\ ol.outline[2].items[1].resolvable)
               => /\ Len(ol.result) = 2
                  /\ ol.result[1].level = 0
                  /\ ol.result[2].level = 1

\* an unresolvable entry, then a nested entry that precedes a top-level
\* entry of a lower page
C8_Witness ==
    /\ ol.phase = "returned"
    /\ \E k \in 1..Len(ol.outline) :
           ~ol.outline[k].is_list /\ ~ol.outline[k].resolvable
    /\ Len(ol.result) = 2
    /\ ol.result[1].level = 1
    /\ ol.result[2].level = 0
    /\ ol.result[1].start_page > ol.result[2].start_page

----------------------------------------------------------------------------
(* Properties of standardize_metadata.                                     *)

\* a raw key without its leading '/' characters
CanonicalKey(key) ==
    LET n == CHOOSE n \in 0..Len(key) :
                 /\ \A k \in 1..n : key[k] = "/"
                 /\ n < Len(key) => key[n + 1] # "/"
    IN  SubSeq(key, n + 1, Len(key))

IsDateKey(key) == CanonicalKey(key) \in {sCreationDate, sModDate}

\* the call under way normalises a single date item with a non-empty value
DateCall ==
    /\ md.phase \in {"once", "twice"}
    /\ Len(md.raw) = 1
    /\ IsDateKey(md.raw[1].key)
    /\ md.raw[1].value # <<>>

\* the values the result holds for the date item's canonical key
DateResults ==
    {md.once[k].value : k \in {j \in 1..Len(md.once) :
                                  md.once[j].key = CanonicalKey(md.raw[1].key)}}

\* s is YYYYMMDDhhmmss: 14 digits that name a date and a time of day
IsTimestamp(s) ==
    /\ Len(s) = 14
    /\ AllIn(s, Digits)
    /\ ToInt(SubSeq(s, 1, 4)) >= 1
    /\ ToInt(SubSeq(s, 5, 6)) \in 1..12
    /\ ToInt(SubSeq(s, 7, 8)) \in
           1..DaysInMonth(ToInt(SubSeq(s, 1, 4)), ToInt(SubSeq(s, 5, 6)))
    /\ ToInt(SubSeq(s, 9, 10)) <= 23
    /\ ToInt(SubSeq(s, 11, 12)) <= 59
    /\ ToInt(SubSeq(s, 13, 14)) <= 59

\* YYYY-MM-DDThh:mm:ssZ of a timestamp
IsoOf(s) ==
    SubSeq(s, 1, 4) \o <<"-">> \o SubSeq(s, 5, 6) \o <<"-">> \o SubSeq(s, 7, 8)
        \o <<"T">> \o SubSeq(s, 9, 10) \o <<":">> \o SubSeq(s, 11, 12)
        \o <<":">> \o SubSeq(s, 13, 14) \o <<"Z">>

\* t has the shape dddd-dd-ddTdd:dd:ddZ
IsIsoShaped(t) ==
    /\ Len(t) = 20
    /\ \A k \in 1..20 :
           IF k \in {5, 8} THEN t[k] = "-"
           ELSE IF k = 11 THEN t[k] = "T"
           ELSE IF k \in {14, 17} THEN t[k] = ":"
           ELSE IF k = 20 THEN t[k] = "Z"
           ELSE t[k] \in Digits

\* the characters after 'D:' (14 of them at most)
AfterMarker(v) == SubSeq(v, 3, IF Len(v) < 16 THEN Len(v) ELSE 16)

\* C5 as stated: a CreationDate or ModDate value is replaced by its
\* ISO-8601 form plus 'Z' exactly when it begins with 'D:' and the 14
\* characters that follow are YYYYMMDDhhmmss; in every other case the
\* result holds the raw value unchanged; the field is never dropped.
C5_OnlyMarkedTimestamps ==
    DateCall =>
        LET v == md.raw[1].value
        IN  DateResults =
                IF StartsWith(v, sDColon) /\ IsTimestamp(AfterMarker(v))
                THEN {IsoOf(AfterMarker(v))}
                ELSE {v}

\* C5 amended: let s be the (at most 14) characters after 'D:' when the
\* value begins with 'D:', and the whole value when it does not.  The value
\* is replaced by an ISO-8601 date-time plus 'Z' exactly when strptime
\* accepts s for '%Y%m%d%H%M%S'; it does whenever s is YYYYMMDDhhmmss, with
\* or without the 'D:' before it, and then the result is that timestamp
\* with separators; it never does when s has more than 14 characters, fewer
\* than 9, or a character that is neither a digit nor a blank.  In every
\* other case the result holds the raw value unchanged, and the field is
\* never dropped.
C5_DateNormalised ==
    DateCall =>
        LET v == md.raw[1].value
            s == IF StartsWith(v, sDColon) THEN AfterMarker(v) ELSE v
        IN  /\ Cardinality(DateResults) = 1
            /\ \A r \in DateResults :
                   /\ r # v <=> strptime(s).ok
                   /\ r # v => IsIsoShaped(r)
                   /\ IsTimestamp(s) => r = IsoOf(s)
                   /\ (Len(s) > 14 \/ Len(s) < 9 \/ ~AllIn(s, Digits \cup {" "}))
                          => r = v
                   /\ v = sExampleDate => r = sExampleIso
                   /\ v = sBadValue => r = sBadValue

\* a timestamp without the 'D:' marker has been replaced by its ISO form
C5_Witness ==
    /\ DateCall
    /\ ~StartsWith(md.raw[1].value, sDColon)
    /\ IsTimestamp(md.raw[1].value)
    /\ DateResults = {IsoOf(md.raw[1].value)}

\* Python's == on dicts: the same keys with the same values, in any order
SameDict(a, b) == {a[k] : k \in 1..Len(a)} = {b[k] : k \in 1..Len(b)}

\* C6: normalising a normalised mapping gives the same mapping:
\* standardize_metadata(standardize_metadata(m)) = standardize_metadata(m).
C6_Idempotent ==
    md.phase = "twice" => SameDict(md.twice, md.once)

\* the second call has returned for a mapping with a doubly marked key, an
\* empty Title, no Author and a date that the first call converted
C6_Witness ==
    /\ md.phase = "twice"
    /\ Len(md.raw) = 2
    /\ \E k \in 1..2 : md.raw[k].key = <<"/", "/">> \o sTitle /\ md.raw[k].value = <<>>
    /\ \E k \in 1..2 : md.raw[k].key = <<"/">> \o sCreationDate
                       /\ md.raw[k].value = sExampleDate
    /\ \E k \in 1..Len(md.once) : md.once[k] = [key |-> sCreationDate, value |-> sExampleIso]
    /\ \E k \in 1..Len(md.once) : md.once[k] = [key |-> sTitle, value |-> sUntitled]
    /\ \E k \in 1..Len(md.once) : md.once[k] = [key |-> sAuthor, value |-> sUnknown]

----------------------------------------------------------------------------
(* Properties of pdf_to_json.                                              *)

\* the filtered text of the page at index p
TextOfPage(p) == extract_text_from_page(PageOf(p))

IsChapterShape(data) == DOMAIN data = {"metadata", "chapters"}

IsFlatShape(data) == DOMAIN data = {"metadata", "content"}

\* a chapter's pages and images have been assigned
Filled(chapter) == {"pages", "images"} \subseteq DOMAIN chapter

ValidPage(n) == n \in 0..(doc.page_count - 1)

Ascending(chs) ==
    \A k \in 1..(Len(chs) - 1) : chs[k].start_page <= chs[k + 1].start_page

\* the last page of the chapter at sorted position k
LastPageOf(chs, k) ==
    IF k = Len(chs) THEN doc.page_count - 1 ELSE chs[k + 1].start_page - 1

\* C1: once the stubs are sorted ascending by start_page, the chapter at
\* each sorted position is filled with exactly the pages start_page..end_page
\* in page order, end_page being the next chapter's start_page - 1 or, for
\* the last chapter, page_count - 1; a chapter with end_page < start_page
\* gets no pages; this holds for every list of stubs and every page_count,
\* and no error is raised.
C1_ChapterRanges ==
    /\ pc \in {"fill", "write"} =>
           /\ Ascending(chapters)
           /\ \A k \in 1..Len(chapters) :
                  (k < i) =>
                      /\ Filled(chapters[k])
                      /\ chapters[k].pages =
                             [n \in 1..Len(RangeList(chapters[k].start_page,
                                                     LastPageOf(chapters, k))) |->
                                 TextOfPage(chapters[k].start_page + n - 1)]
    /\ (doc.exists /\ doc.valid) => status # "Unexpected"

\* C2: a completed conversion has exactly one of the two shapes, and the
\* chapter shape if and only if the document has an outline, flattening it
\* gives at least one stub, and at least one chapter has a non-empty page
\* range; otherwise the flat shape.
C2_ShapeRule ==
    status = "ok" =>
        /\ IsChapterShape(json_data) # IsFlatShape(json_data)
        /\ IsChapterShape(json_data) <=>
               /\ doc.outline # <<>>
               /\ ResolvablePaths(doc.outline, <<>>) # {}
               /\ \E k \in 1..Len(chapters) :
                      Filled(chapters[k]) /\ chapters[k].pages # <<>>

\* C3: whatever the outline holds (entries that cannot be resolved, stubs
\* whose start_page is no valid page index), the conversion of a readable
\* document completes and writes flat output, or chapter output built from
\* valid entries only; no such anomaly aborts the conversion.
C3_TotalFallback ==
    (pc = "done" /\ doc.exists /\ doc.valid) =>
        /\ status = "ok"
        /\ written.opened
        /\ \/ IsFlatShape(json_data)
           \/ /\ IsChapterShape(json_data)
              /\ \A k \in 1..Len(json_data.chapters) :
                     ValidPage(json_data.chapters[k].start_page)

\* the result is whole: normalised metadata with every chapter filled, or
\* with one entry for each page
Complete(data) ==
    /\ data.metadata = metadata_dict
    /\ DictHas(data.metadata, sTitle) /\ DictHas(data.metadata, sAuthor)
    /\ IsChapterShape(data) =>
           /\ Len(data.chapters) = Cardinality(ResolvablePaths(doc.outline, <<>>))
           /\ \A k \in 1..Len(data.chapters) : Filled(data.chapters[k])
    /\ IsFlatShape(data) => Len(data.content) = doc.page_count

\* C4: the output file is opened and written only once the whole result is
\* assembled, and then with that result; a run that ends NotFound,
\* InvalidFormat or with an unexpected failure of the document's processing
\* has written nothing.
C4_NoPartialOutput ==
    /\ written.opened =>
           /\ pc = "done"
           /\ status = "ok"
           /\ IsChapterShape(json_data) \/ IsFlatShape(json_data)
           /\ Complete(json_data)
           /\ written.data = <<json_data>>
    /\ status \in {"NotFound", "InvalidFormat", "Unexpected"} => ~written.opened
    /\ pc # "done" => ~written.opened

\* the run failed in the chapter loop after a first chapter had been filled
C4_Witness ==
    /\ pc = "done"
    /\ status = "Unexpected"
    /\ i > 1
    /\ Filled(chapters[1])
    /\ ~written.opened

\* every stub starts at a page of the document
StubsValid(chs) == \A k \in 1..Len(chs) : ValidPage(chs[k].start_page)

TextsOf(chapter) == {chapter.pages[n] : n \in 1..Len(chapter.pages)}

\* C10: in chapter output built from stubs with valid start pages, the
\* chapters' page lists one after the other are exactly the pages from the
\* lowest start_page to page_count - 1, each once and in ascending order;
\* the lists of two chapters share no page, and no page below the lowest
\* start_page is in any chapter.
C10_PageCoverage ==
    (status = "ok" /\ IsChapterShape(json_data)
        /\ StubsValid(json_data.chapters)) =>
        LET chs == json_data.chapters
            lowest == CHOOSE n \in {chs[k].start_page : k \in 1..Len(chs)} :
                          \A k \in 1..Len(chs) : n <= chs[k].start_page
        IN  /\ Concat([k \in 1..Len(chs) |-> chs[k].pages]) =
                   [n \in 1..(doc.page_count - lowest) |-> TextOfPage(lowest + n - 1)]
            /\ \A k, l \in 1..Len(chs) :
                   k # l => TextsOf(chs[k]) \cap TextsOf(chs[l]) = {}
            /\ \A p \in 0..(lowest - 1) : \A k \in 1..Len(chs) :
                   TextOfPage(p) \notin TextsOf(chs[k])

\* chapter output of three chapters that the outline does not list in page
\* order, two of them starting at the same page, none at page 0
C10_Witness ==
    /\ status = "ok"
    /\ IsChapterShape(json_data)
    /\ StubsValid(json_data.chapters)
    /\ Len(json_data.chapters) = 3
    /\ json_data.chapters[1].start_page >= 1
    /\ json_data.chapters[1].pages = <<>>
    /\ json_data.chapters[2].pages # <<>>
    /\ json_data.chapters[3].pages # <<>>
    /\ ~Ascending(process_outlines(doc.outline, 0))

====
